---- MODULE Spec2Model ----
(***************************************************************************)
(* The coercion optimizer of MonetDB5 (optimizer/opt_coercion.c):          *)
(* OPTcoercionImplementation scans a MAL block once, removes identity      *)
(* coercions (coercionOptimizerStep) and rewrites operands of batcalc      *)
(* arithmetic that were widened to hge (coercionOptimizerCalcStep).        *)
(*                                                                         *)
(* A MAL block is a sequence of instructions; the C index i of an          *)
(* instruction is position i+1 of the TLA+ sequence, and argument k of an  *)
(* instruction is position k+1 of its argv.                                *)
(***************************************************************************)
EXTENDS Integers, Sequences, FiniteSets, TLC

\* ------------------------------------------------------------- bounds
\* Longest input program, counted in instructions after the signature.
MaxLen == 3

\* ------------------------------------------------------- atomic types
TYPE_int == 5
TYPE_lng == 11
TYPE_hge == 12
\* A column (BAT) type is its base type plus this bit.
BatBit == 256

newBatType(t) == BatBit + t
getColumnType(t) == t % BatBit

\* The canonical name of a scalar atomic type (no calc instruction of the
\* universe has a column argument, so only scalar types are asked for).
ATOMname(t) ==
    CASE t = TYPE_int -> "int"
      [] t = TYPE_lng -> "lng"
      [] t = TYPE_hge -> "hge"
      [] OTHER -> "bat"

\* ---------------------------------------------------- the symbol table
\* mb->var: the variables of the block, their static types and constants.
\*   0 return variable, 1 column parameter, 2 the widened column,
\*   3 wide result, 4 5 9 integer constants (scale 0, scale 1, digits 3),
\*   6 scalar parameter, 7 8 scalars, 10 a non-constant int, 11 narrow result.
vtop == 12
Vars == 0..(vtop - 1)

VarTypeTable ==
    << newBatType(TYPE_lng), newBatType(TYPE_lng), newBatType(TYPE_hge),
       newBatType(TYPE_hge), TYPE_int, TYPE_int, TYPE_lng, TYPE_lng,
       TYPE_lng, TYPE_int, TYPE_int, newBatType(TYPE_lng) >>

getVarType(v) == VarTypeTable[v + 1]

ConstVars == {4, 5, 9}
isVarConstant(v) == v \in ConstVars
getVarConstant(v) ==
    CASE v = 4 -> 0
      [] v = 5 -> 1
      [] v = 9 -> 3
      [] OTHER -> 0

\* --------------------------------------------------------- instructions
Instr(m, f, rc, av) == [mod |-> m, fcn |-> f, retc |-> rc, argv |-> av]

argc(p) == Len(p.argv)
getArg(p, k) == p.argv[k + 1]
getModuleId(p) == p.mod
getFunctionId(p) == p.fcn
getArgType(p, k) == getVarType(getArg(p, k))
getInstrPtr(m, i) == m[i + 1]
stop(m) == Len(m)

\* Instruction 0 of every block: the signature, function user.main(v1, v6, v10):v0.
Signature == Instr("user", "main", 1, <<0, 1, 6, 10>>)

\* The instructions input programs are built from.
Universe ==
    { Instr("batcalc", "hge", 1, <<2, 4, 1, 9, 4>>),  \* w := hge(x), scale kept
      Instr("batcalc", "hge", 1, <<2, 4, 1, 9, 5>>),  \* w := hge(x), scale 0 -> 1
      Instr("batcalc", "hge", 1, <<2, 4, 0, 9, 4>>),  \* source is variable 0
      Instr("batcalc", "hge", 1, <<2, 4, 3, 9, 4>>),  \* source already hge
      Instr("batcalc", "hge", 1, <<2, 4, 1, 9, 10>>), \* scale not a constant
      Instr("batcalc", "+", 1, <<3, 2, 2>>),          \* wide result
      Instr("batcalc", "-", 1, <<11, 2, 2>>),         \* narrow result
      Instr("batcalc", "%", 1, <<3, 2, 7>>),          \* column and scalar
      Instr("batcalc", "+", 1, <<3, 2, 2, 1>>),       \* four argument slots
      Instr("calc", "lng", 1, <<7, 6>>),              \* y := lng(x), x a lng
      Instr("calc", "lng", 1, <<8, 7>>),              \* z := lng(y)
      Instr("calc", "lng", 2, <<7, 8>>),              \* two results, no operand
      Instr("calc", "lng", 0, <<7, 6>>),              \* no result, two operands
      Instr("calc", "lng", 1, <<8, 4>>),              \* z := lng(c), c an int
      Instr("calc", "int", 1, <<8, 7>>),              \* name is not the type's
      Instr("NULL", "NULL", 1, <<8, 7>>) }            \* z := y, no module

\* The last instruction of every block: end user.main.
EndInstr == Instr("user", "main", 0, << >>)

\* The instruction sequences of at most n instructions of the universe.
RECURSIVE Bodies(_)
Bodies(n) ==
    IF n = 0 THEN { << >> }
    ELSE LET shorter == Bodies(n - 1)
         IN shorter \cup { Append(s, u) : s \in { t \in shorter : Len(t) = n - 1 },
                                           u \in Universe }

\* The blocks: a signature, at most n instructions, the end instruction.
Programs(n) == { <<Signature>> \o b \o <<EndInstr>> : b \in Bodies(n) }

\* ------------------------------------------------- the candidate table
\* GDKzalloc: every field of every entry is 0.
NoCoercion ==
    [pc |-> 0, fromtype |-> 0, totype |-> 0, src |-> 0, digits |-> 0, scale |-> 0]
ZeroTable == [v \in Vars |-> NoCoercion]

\* ------------------------------------------------------------- state
VARIABLES
    mb,        \* the block's instructions (mb->stmt[0 .. stop-1])
    pc,        \* "entry", "loop" or "done": where the call is
    call,      \* 1 or 2: which call of the pass this is
    i,         \* the driver's loop index
    actions,   \* the driver's action counter
    coerce,    \* the candidate table
    ret,       \* the value the call returned
    allocated, \* whether GDKzalloc gave a table in this call
    first,     \* history: allocated and ret of the first call, once it returned
    mb0,       \* history: the block on entry of this call
    orig,      \* history: for each instruction of mb, its index in mb0
    examined,  \* history: per loop body, the index it took (at) and that
               \* instruction's index in mb0 (orig)
    removed,   \* history: the instructions removed in this call, as removed
    last       \* history: what the last loop body saw and did

vars == << mb, pc, call, i, actions, coerce, ret, allocated, first, mb0, orig,
           examined, removed, last >>

NoLast ==
    [kind |-> "none", i |-> 0, before |-> Signature, after |-> Signature,
     table |-> ZeroTable, k |-> 0]

Init ==
    /\ mb \in Programs(MaxLen)
    /\ pc = "entry"
    /\ call = 1
    /\ i = 0
    /\ actions = 0
    /\ coerce = ZeroTable
    /\ ret = 0
    /\ allocated = FALSE
    /\ first = [allocated |-> FALSE, ret |-> 0]
    /\ mb0 = mb
    /\ orig = [j \in 1..Len(mb) |-> j - 1]
    /\ examined = << >>
    /\ removed = << >>
    /\ last = NoLast

\* ------------------------------------------------ coercionOptimizerStep
\* removeInstruction(mb, p), p being the instruction at index i.
removeInstruction(m, idx) == SubSeq(m, 1, idx) \o SubSeq(m, idx + 2, Len(m))

\* The operand slots (k = retc .. argc-1) of p that hold a now hold b.
ReplaceOperand(p, a, b) ==
    [p EXCEPT !.argv = [k \in 1..Len(p.argv) |->
                          IF k > p.retc /\ p.argv[k] = a THEN b ELSE p.argv[k]]]

\* The suffix of m from index idx on, rewritten.
RewriteSuffix(m, idx, a, b) ==
    [j \in 1..Len(m) |-> IF j - 1 >= idx THEN ReplaceOperand(m[j], a, b) ELSE m[j]]

\* The test of coercionOptimizerStep: same type, named after the type.
IsIdentityCoercion(p) ==
    LET a == getArg(p, 0)
        b == getArg(p, 1)
        t == getVarType(b)
    IN  /\ getVarType(a) = t
        /\ getFunctionId(p) = ATOMname(t)

\* coercionOptimizerStep(mb, i, p): the value returned and the block left.
coercionOptimizerStep(m, idx, p) ==
    IF IsIdentityCoercion(p)
    THEN [k |-> 1,
          mb |-> RewriteSuffix(removeInstruction(m, idx), idx, getArg(p, 0), getArg(p, 1))]
    ELSE [k |-> 0, mb |-> m]

\* -------------------------------------------- coercionOptimizerCalcStep
ArithRefs == {"+", "-", "*", "/"}

\* The instructions coercionOptimizerCalcStep goes on with.
IsCalcTarget(p) ==
    /\ getModuleId(p) = "batcalc"
    /\ getFunctionId(p) # "NULL"
    /\ (getFunctionId(p) \in ArithRefs \/ getFunctionId(p) = "%")
    /\ argc(p) = 3

\* Mutant of NarrowGuard: the ordering of the types is not looked at.
NarrowGuard_NoOrder(a, r, c) == a = r /\ c.src # 0

\* The guard of one operand: a the operand's base type, r the result's.
NarrowGuard(a, r, c) == a = r /\ c.src # 0 /\ c.fromtype < r

\* The variable operand slot k holds after the step.
NarrowedArg(p, k, tab) ==
    LET r == getColumnType(getVarType(getArg(p, 0)))
        a == getColumnType(getVarType(getArg(p, k)))
    IN  IF NarrowGuard(a, r, tab[getArg(p, k)])
        THEN tab[getArg(p, k)].src
        ELSE getArg(p, k)

\* Mutant of coercionOptimizerCalcStep: only the first operand is looked at.
coercionOptimizerCalcStep_FirstOnly(p, tab) ==
    IF ~IsCalcTarget(p) THEN p
    ELSE [p EXCEPT !.argv = << getArg(p, 0), NarrowedArg(p, 1, tab), getArg(p, 2) >>]

\* coercionOptimizerCalcStep on instruction p: p as it is left.
coercionOptimizerCalcStep(p, tab) ==
    IF ~IsCalcTarget(p) THEN p
    ELSE [p EXCEPT !.argv = << getArg(p, 0), NarrowedArg(p, 1, tab),
                               NarrowedArg(p, 2, tab) >>]

\* ------------------------------------------- OPTcoercionImplementation
HAVE_HGE == TRUE

\* The shape of the hge constructor the driver records.
IsWideConstructor(p) ==
    /\ HAVE_HGE
    /\ getModuleId(p) = "batcalc"
    /\ getFunctionId(p) = "hge"
    /\ p.retc = 1
    /\ argc(p) = 5
    /\ isVarConstant(getArg(p, 4))
    /\ isVarConstant(getArg(p, 3))

RecordCoercion(tab, idx, p) ==
    [tab EXCEPT ![getArg(p, 0)] =
        [pc |-> idx, totype |-> TYPE_hge, src |-> getArg(p, 2),
         fromtype |-> getColumnType(getArgType(p, 2)),
         digits |-> getVarConstant(getArg(p, 3)),
         scale |-> getVarConstant(getArg(p, 4))]]

\* Mutant of NextIndex: the index is not taken back after a removal.
NextIndex_NoRewind(idx, k) == idx + 1

\* The loop index of the next iteration: if (k) i--; then the loop's i++.
NextIndex(idx, k) == IF k # 0 THEN (idx - 1) + 1 ELSE idx + 1

\* Mutant of StartIndex: the scan starts at the signature.
StartIndex_Zero == 1 - 1

\* The first index of the scan: for (i = 1; ...).
StartIndex == 1

\* Mutant of AllocFail: the scan goes on without a table of its own.
AllocFail_GoesOn ==
    /\ pc = "entry"
    /\ pc' = "loop"
    /\ allocated' = FALSE
    /\ coerce' = ZeroTable
    /\ actions' = 0
    /\ i' = StartIndex
    /\ UNCHANGED << mb, call, ret, first, mb0, orig, examined, removed, last >>

\* coerce == NULL: return 0.
AllocFail ==
    /\ pc = "entry"
    /\ pc' = "done"
    /\ ret' = 0
    /\ allocated' = FALSE
    /\ UNCHANGED << mb, call, i, actions, coerce, first, mb0, orig, examined, removed,
                    last >>

AllocOk ==
    /\ pc = "entry"
    /\ pc' = "loop"
    /\ allocated' = TRUE
    /\ coerce' = ZeroTable
    /\ actions' = 0
    /\ i' = StartIndex
    /\ UNCHANGED << mb, call, ret, first, mb0, orig, examined, removed, last >>

\* One execution of the body of for (i = 1; i < mb->stop; i++).
LoopBody ==
    /\ pc = "loop"
    /\ i < stop(mb)
    /\ LET p == getInstrPtr(mb, i)
       IN  IF getModuleId(p) = "NULL"
           THEN /\ i' = i + 1
                /\ last' = [kind |-> "skip", i |-> i, before |-> p, after |-> p,
                            table |-> coerce, k |-> 0]
                /\ UNCHANGED << mb, actions, coerce, orig, removed >>
           ELSE LET tab == IF IsWideConstructor(p) THEN RecordCoercion(coerce, i, p)
                           ELSE coerce
                    q == coercionOptimizerCalcStep(p, tab)
                    m1 == [mb EXCEPT ![i + 1] = q]
                    s == IF getModuleId(q) = "calc" /\ argc(q) = 2
                         THEN coercionOptimizerStep(m1, i, q)
                         ELSE [k |-> 0, mb |-> m1]
                IN  /\ coerce' = tab
                    /\ mb' = s.mb
                    /\ actions' = actions + s.k
                    /\ i' = NextIndex(i, s.k)
                    /\ orig' = IF s.k # 0 THEN removeInstruction(orig, i) ELSE orig
                    /\ removed' = IF s.k # 0 THEN Append(removed, q) ELSE removed
                    /\ last' = [kind |-> "body", i |-> i, before |-> p, after |-> q,
                                table |-> tab, k |-> s.k]
    /\ examined' = Append(examined, [orig |-> orig[i + 1], at |-> i])
    /\ UNCHANGED << pc, call, ret, allocated, first, mb0 >>

\* The loop ends: GDKfree(coerce); return actions.
LoopExit ==
    /\ pc = "loop"
    /\ ~(i < stop(mb))
    /\ pc' = "done"
    /\ ret' = actions
    /\ UNCHANGED << mb, call, i, actions, coerce, allocated, first, mb0, orig,
                    examined, removed, last >>

\* The pipeline calls the pass again on the block the first call left.
SecondCall ==
    /\ pc = "done"
    /\ call = 1
    /\ call' = 2
    /\ first' = [allocated |-> allocated, ret |-> ret]
    /\ pc' = "entry"
    /\ mb0' = mb
    /\ orig' = [j \in 1..Len(mb) |-> j - 1]
    /\ examined' = << >>
    /\ removed' = << >>
    /\ last' = NoLast
    /\ i' = 0
    /\ actions' = 0
    /\ UNCHANGED << mb, coerce, ret, allocated >>

Next == AllocFail \/ AllocOk \/ LoopBody \/ LoopExit \/ SecondCall

Spec == Init /\ [][Next]_vars

\* --------------------------------------------- what a block computes
\* The nil of every type: the result of a failed conversion or operation.
nil == -100000

\* Largest magnitude a value of the base type holds.
MaxOfType(t) ==
    CASE t = TYPE_int -> 99
      [] t = TYPE_lng -> 99
      [] OTHER -> 9999

RECURSIVE Pow10(_)
Pow10(n) == IF n <= 0 THEN 1 ELSE 10 * Pow10(n - 1)

Abs(x) == IF x < 0 THEN -x ELSE x

InType(x, t) == IF x = nil \/ Abs(x) > MaxOfType(t) THEN nil ELSE x

\* calc.T(x): the value of x as a T.
Cast(x, t) == InType(x, t)

\* batcalc.hge(s1, x, digits, scale): the decimal x of scale s1 as a decimal of
\* the given digits and scale.
Convert(x, s1, digits, scale) ==
    IF x = nil \/ s1 = nil \/ digits = nil \/ scale = nil THEN nil
    ELSE LET y == IF scale >= s1 THEN x * Pow10(scale - s1)
                  ELSE (IF x < 0 THEN -1 ELSE 1) * (Abs(x) \div Pow10(s1 - scale))
         IN  IF Abs(y) >= Pow10(digits) THEN nil ELSE InType(y, TYPE_hge)

\* batcalc.op(x, y), computed in the base type t of the result.
Arith(op, x, y, t) ==
    IF x = nil \/ y = nil THEN nil
    ELSE CASE op = "+" -> InType(x + y, t)
           [] op = "-" -> InType(x - y, t)
           [] op = "*" -> InType(x * y, t)
           [] op = "/" -> IF y = 0 THEN nil
                          ELSE InType((IF (x < 0) # (y < 0) THEN -1 ELSE 1)
                                      * (Abs(x) \div Abs(y)), t)
           [] OTHER    -> IF y = 0 THEN nil
                          ELSE InType((IF x < 0 THEN -1 ELSE 1) * (Abs(x) % Abs(y)), t)

TypeOfName(f) ==
    CASE f = "int" -> TYPE_int
      [] f = "lng" -> TYPE_lng
      [] OTHER -> TYPE_hge

\* The values on entry: constants, and the values the caller passes.
InputVal(v) ==
    IF isVarConstant(v) THEN getVarConstant(v)
    ELSE CASE v = 0 -> 2
           [] v = 1 -> 3
           [] v = 6 -> 4
           [] v = 10 -> 1
           [] OTHER -> nil
InputEnv == [v \in Vars |-> InputVal(v)]

\* One instruction, executed.
ExecInstr(env, p) ==
    IF p.retc # 1 THEN env
    ELSE CASE getModuleId(p) = "NULL" /\ argc(p) = 2 ->
                [env EXCEPT ![getArg(p, 0)] = env[getArg(p, 1)]]
           [] getModuleId(p) = "calc" /\ argc(p) = 2
                /\ getFunctionId(p) \in {"int", "lng", "hge"} ->
                [env EXCEPT ![getArg(p, 0)] =
                    Cast(env[getArg(p, 1)], TypeOfName(getFunctionId(p)))]
           [] getModuleId(p) = "batcalc" /\ getFunctionId(p) = "hge" /\ argc(p) = 5 ->
                [env EXCEPT ![getArg(p, 0)] =
                    Convert(env[getArg(p, 2)], env[getArg(p, 1)],
                            env[getArg(p, 3)], env[getArg(p, 4)])]
           [] IsCalcTarget(p) ->
                [env EXCEPT ![getArg(p, 0)] =
                    Arith(getFunctionId(p), env[getArg(p, 1)], env[getArg(p, 2)],
                          getColumnType(getVarType(getArg(p, 0))))]
           [] OTHER -> env

\* The block executed from instruction j (1-based position) on.
RECURSIVE ExecFrom(_, _, _)
ExecFrom(m, j, env) ==
    IF j > Len(m) THEN env ELSE ExecFrom(m, j + 1, ExecInstr(env, m[j]))
Exec(m) == ExecFrom(m, 2, InputEnv)

\* ------------------------------------------------ shapes of the input
\* The positions (1-based) of m that define v: a result slot, or the signature.
DefsOf(m, v) ==
    { j \in 1..Len(m) :
        \E k \in 1..Len(m[j].argv) : m[j].argv[k] = v /\ (j = 1 \/ k <= m[j].retc) }

\* Every variable is defined at most once and used only after its definition.
SingleAssignment(m) ==
    /\ \A v \in Vars : Cardinality(DefsOf(m, v)) <= 1
    /\ \A j \in 2..Len(m) : \A k \in 1..Len(m[j].argv) :
          (k > m[j].retc /\ ~isVarConstant(m[j].argv[k]))
             => \E d \in DefsOf(m, m[j].argv[k]) : d < j

\* The types of an instruction agree with its opcode.
WellTyped(p) ==
    CASE getModuleId(p) = "calc" /\ argc(p) = 2 ->
            p.retc = 1 /\ getFunctionId(p) = ATOMname(getArgType(p, 0))
      [] getModuleId(p) = "batcalc" /\ getFunctionId(p) = "hge" ->
            p.retc = 1 /\ argc(p) = 5 /\ getArgType(p, 0) = newBatType(TYPE_hge)
      [] getModuleId(p) = "NULL" ->
            p.retc = 1 /\ argc(p) = 2 /\ getArgType(p, 0) = getArgType(p, 1)
      [] OTHER -> p.retc = 1

ValidProgram(m) == SingleAssignment(m) /\ \A j \in 2..(Len(m) - 1) : WellTyped(m[j])

\* The variables the instructions after the signature define.
DefinedVars(m) ==
    { v \in Vars : \E j \in 2..Len(m) : \E k \in 1..Len(m[j].argv) :
                      k <= m[j].retc /\ m[j].argv[k] = v }

\* The first call has returned, having had its table.
FirstPassDone == pc = "done" /\ call = 1 /\ allocated

\* ================================================================ claims

\* C1 (semantic equivalence): when the first call has returned, every variable
\* the remaining instructions define has the value it had in the block as it
\* was on entry, for every input block that is in single-assignment form and
\* well typed.
C1_SemanticEquivalence ==
    (FirstPassDone /\ ValidProgram(mb0))
        => \A v \in DefinedVars(mb) : Exec(mb)[v] = Exec(mb0)[v]

\* The conversions that leave the value as it is: same scale on both sides.
KeepsScale(p) ==
    IsWideConstructor(p) => getVarConstant(getArg(p, 1)) = getVarConstant(getArg(p, 4))

\* C1, for the blocks whose wide constructors keep the scale and fit the digits:
\* there the two blocks compute the same.
C1_EquivalentWhenScaleKept ==
    (FirstPassDone /\ ValidProgram(mb0) /\ \A j \in 2..Len(mb0) : KeepsScale(mb0[j]))
        => \A v \in DefinedVars(mb) : Exec(mb)[v] = Exec(mb0)[v]

\* The driver would hand the instruction to coercionOptimizerStep and remove it.
IsRemovable(p) ==
    getModuleId(p) = "calc" /\ argc(p) = 2 /\ IsIdentityCoercion(p)

ResultVars(q) == { q.argv[k] : k \in 1..q.retc }

\* C3 (soundness of identity elimination): for a block in single-assignment
\* form, when the first call has returned, no result variable of a removed
\* instruction is in any argument slot of a remaining instruction, and every
\* operand slot that held the removed instruction's first argument now holds
\* its second.
C3_RemovedResultGone ==
    (FirstPassDone /\ SingleAssignment(mb0))
        => \A n \in 1..Len(removed) :
             LET q == removed[n]
             IN  /\ \A a \in ResultVars(q) : \A j \in 1..Len(mb) :
                       \A k \in 1..Len(mb[j].argv) : mb[j].argv[k] # a
                 /\ \A j \in 1..Len(mb) : \A k \in 1..Len(mb[j].argv) :
                       (k > mb[j].retc /\ mb0[orig[j] + 1].argv[k] = getArg(q, 0))
                          => mb[j].argv[k] = getArg(q, 1)

\* C3, for the blocks in which every removed instruction had exactly one
\* result: there the statement of C3 holds.
C3_SoundWhenOneResult ==
    (FirstPassDone /\ SingleAssignment(mb0)
       /\ \A n \in 1..Len(removed) : removed[n].retc = 1)
        => \A n \in 1..Len(removed) :
             LET q == removed[n]
             IN  /\ \A a \in ResultVars(q) : \A j \in 1..Len(mb) :
                       \A k \in 1..Len(mb[j].argv) : mb[j].argv[k] # a
                 /\ \A j \in 1..Len(mb) : \A k \in 1..Len(mb[j].argv) :
                       (k > mb[j].retc /\ mb0[orig[j] + 1].argv[k] = getArg(q, 0))
                          => mb[j].argv[k] = getArg(q, 1)

\* The indices below idx of the wide constructors of m whose result is v.
ConstructorsBefore(m, idx, v) ==
    { j \in 1..(idx - 1) :
        j < Len(m) /\ IsWideConstructor(m[j + 1]) /\ getArg(m[j + 1], 0) = v }

Max(S) == CHOOSE x \in S : \A y \in S : y <= x

\* The source operand of the last wide constructor below idx with result v.
RecordedSource(m, idx, v) == getArg(m[Max(ConstructorsBefore(m, idx, v)) + 1], 2)

BaseTypeOf(v) == getColumnType(getVarType(v))

\* C4 (narrowing safety): whenever a loop body left an argument slot of its
\* instruction holding another variable than before, the slot is an operand
\* slot, the old operand's base type is the result's base type, a wide
\* constructor with the old operand as result was examined earlier in this
\* call, the new variable is the source operand of the last such constructor,
\* and the new variable's base type, which is the recorded one, is strictly
\* below the result's base type.
C4_NarrowingSafety ==
    last.kind = "body"
        => /\ Len(last.after.argv) = Len(last.before.argv)
           /\ \A k \in 1..Len(last.before.argv) :
                last.after.argv[k] # last.before.argv[k]
                  => LET old == last.before.argv[k]
                         new == last.after.argv[k]
                         r == BaseTypeOf(getArg(last.before, 0))
                     IN  /\ k > 1
                         /\ BaseTypeOf(old) = r
                         /\ ConstructorsBefore(mb, last.i, old) # {}
                         /\ new = RecordedSource(mb, last.i, old)
                         /\ last.table[old].src = new
                         /\ last.table[old].fromtype = BaseTypeOf(new)
                         /\ BaseTypeOf(new) < r

\* C4's case: the loop body has just replaced both operands of an arithmetic
\* instruction.
C4_Witness ==
    /\ last.kind = "body" /\ IsCalcTarget(last.before)
    /\ getArg(last.after, 1) # getArg(last.before, 1)
    /\ getArg(last.after, 2) # getArg(last.before, 2)

\* The block w := construct_wide(x, digits, scale); r := op(w, w) with constant
\* digits and scale and x of a type narrower than hge.
IsDirectionScenario(m) ==
    /\ Len(m) = 4
    /\ IsWideConstructor(m[2])
    /\ BaseTypeOf(getArg(m[2], 0)) = TYPE_hge
    /\ BaseTypeOf(getArg(m[2], 2)) < TYPE_hge
    /\ IsCalcTarget(m[3]) /\ m[3].retc = 1
    /\ getArg(m[3], 1) = getArg(m[2], 0)
    /\ getArg(m[3], 2) = getArg(m[2], 0)

\* The scenario's block with both operands of the arithmetic rewritten to x.
BothRewritten(m) ==
    [m EXCEPT ![3].argv = << getArg(m[3], 0), getArg(m[2], 2), getArg(m[2], 2) >>]

\* C5 as the claim states it, for an x other than variable 0: a result of x's
\* type has both operands rewritten to x, a result of the wide type has none
\* rewritten.
C5_DirectionAsClaimed ==
    (FirstPassDone /\ IsDirectionScenario(mb0) /\ getArg(mb0[2], 2) # 0)
        => LET r == BaseTypeOf(getArg(mb0[3], 0))
               x == getArg(mb0[2], 2)
           IN  /\ (r = BaseTypeOf(x) => mb = BothRewritten(mb0))
               /\ (r = TYPE_hge => mb = mb0)

\* C5 (direction of the narrowing guard), amended: in the scenario's block a
\* result of the wide type has both operands rewritten to x when x is not
\* variable 0 and none when x is variable 0, a result of x's type has none
\* rewritten, and the constructing instruction is left as it was.
C5_DirectionOfGuard ==
    (FirstPassDone /\ IsDirectionScenario(mb0))
        => LET r == BaseTypeOf(getArg(mb0[3], 0))
               x == getArg(mb0[2], 2)
           IN  /\ ((r = TYPE_hge /\ x # 0) => mb = BothRewritten(mb0))
               /\ ((r = TYPE_hge /\ x = 0) => mb = mb0)
               /\ (r = BaseTypeOf(x) => mb = mb0)
               /\ mb[2] = mb0[2]

\* C5's case: the first call has returned from the scenario's block with a wide
\* result, and both operands are x.
C5_Witness ==
    /\ FirstPassDone /\ IsDirectionScenario(mb0)
    /\ BaseTypeOf(getArg(mb0[3], 0)) = TYPE_hge
    /\ getArg(mb[3], 1) = getArg(mb0[2], 2)
    /\ getArg(mb[3], 2) = getArg(mb0[2], 2)
    /\ getArg(mb0[3], 1) # getArg(mb0[2], 2)

\* C6 (degraded mode): a call that got no table returns 0 and leaves the block
\* as it was on entry.
C6_DegradedMode ==
    (pc = "done" /\ ~allocated) => (ret = 0 /\ mb = mb0)

\* C6's case: the first call has returned without a table from a block that
\* holds a removable identity coercion.
C6_Witness ==
    /\ pc = "done" /\ ~allocated /\ call = 1
    /\ \E j \in 2..Len(mb) : IsRemovable(mb[j])

\* C7 (meaning of the return value): a call that returned 0 left the block as
\* it was on entry.
C7_ZeroMeansUnchanged ==
    (pc = "done" /\ ret = 0) => mb = mb0

\* C8 (trigger of identity elimination): an instruction the loop body removed
\* had one result and one operand of the same static type and was named after
\* that type; a calc instruction of two arguments that has not exactly one
\* result is not removed, and the block is left as it was.
C8_TriggerShape ==
    last.kind = "body"
        => /\ last.k # 0
                => /\ last.before.retc = 1 /\ argc(last.before) = 2
                   /\ getArgType(last.before, 0) = getArgType(last.before, 1)
                   /\ getFunctionId(last.before) = ATOMname(getArgType(last.before, 0))
           /\ (getModuleId(last.before) = "calc" /\ argc(last.before) = 2
                 /\ last.before.retc # 1)
                => last.k = 0

\* C8 without the count of results: what is removed is a calc instruction of
\* two arguments of the same static type, named after that type.
C8_TriggerWithoutRetc ==
    (last.kind = "body" /\ last.k # 0)
        => /\ getModuleId(last.before) = "calc" /\ argc(last.before) = 2
           /\ getArgType(last.before, 0) = getArgType(last.before, 1)
           /\ getFunctionId(last.before) = ATOMname(getArgType(last.before, 0))

\* The loop bodies that took the index the body before them took.
Reexaminations ==
    { n \in 2..Len(examined) : examined[n].at = examined[n - 1].at }

IsEligible(m, idx, p, k) ==
    LET v == getArg(p, k)
        r == BaseTypeOf(getArg(p, 0))
    IN  /\ BaseTypeOf(v) = r
        /\ ConstructorsBefore(m, idx, v) # {}
        /\ BaseTypeOf(RecordedSource(m, idx, v)) < r

\* C10 (completeness of narrowing): every eligible operand slot of an
\* arithmetic instruction the loop body took holds the recorded source
\* variable afterwards.
C10_Completeness ==
    (last.kind = "body" /\ IsCalcTarget(last.before))
        => \A k \in {1, 2} :
              IsEligible(mb, last.i, last.before, k)
                 => getArg(last.after, k) = RecordedSource(mb, last.i, getArg(last.before, k))

\* C10, for the candidates whose source is not variable 0: there every
\* eligible operand slot is replaced.
C10_CompleteForNonZeroSource ==
    (last.kind = "body" /\ IsCalcTarget(last.before))
        => \A k \in {1, 2} :
              (IsEligible(mb, last.i, last.before, k)
                 /\ RecordedSource(mb, last.i, getArg(last.before, k)) # 0)
                 => getArg(last.after, k) = RecordedSource(mb, last.i, getArg(last.before, k))

====
